---- MODULE Spec2Model ----
(***************************************************************************)
(* Device DigiHelp backend.                                                *)
(*                                                                         *)
(*   backend/main.py                     the FastAPI server                *)
(*   backend/app.py                      the Flask server                  *)
(*   backend/api_services/gemini_core.py the inference call of the Flask   *)
(*                                       server and its response splitter  *)
(*                                                                         *)
(* Text that the code inspects character by character (the raw model text  *)
(* of gemini_core) is a sequence of one-character strings.  Text that the  *)
(* code only passes along (manual_text, answer, links) is an opaque string. *)
(***************************************************************************)
EXTENDS Naturals, Sequences, FiniteSets

VARIABLES
    program,    \* which entry point runs: "main", "flask" or "split"
    env,        \* the environment: the set of names that have a value
    phase,      \* "boot", "serving" or "aborted"
    handled,    \* number of requests whose handler has run
    last,       \* main.py: the last request with its response
    client,     \* gemini_core.client: "unset", "ok" or "none"
    uploads,    \* app.py: the uploads directory, path -> whose bytes it holds
    req,        \* app.py: the requests in flight, one record per request
    raw_in,     \* splitter: response.text
    split_out   \* splitter: what generate_manual returns for raw_in

vars == <<program, env, phase, handled, last, client, uploads, req, raw_in, split_out>>

(***************************************************************************)
(* Bounds                                                                  *)
(***************************************************************************)
MaxLen == 5          \* longest raw model text enumerated, in characters
MaxHandled == 2      \* requests served by one run of main.py

(***************************************************************************)
(* Python str operations, as gemini_core uses them                         *)
(***************************************************************************)
Alphabet == {"1", ".", " ", "\n", "a"}

\* str.strip() with no argument removes whitespace; of Alphabet these are
\* the space and the line break.
IsSpace(c) == c \in {" ", "\n", "\t", "\r"}

RECURSIVE LStrip(_)
LStrip(s) ==
    IF s = <<>> THEN <<>>
    ELSE IF IsSpace(Head(s)) THEN LStrip(Tail(s))
    ELSE s

RECURSIVE RStrip(_)
RStrip(s) ==
    IF s = <<>> THEN <<>>
    ELSE IF IsSpace(s[Len(s)]) THEN RStrip(SubSeq(s, 1, Len(s) - 1))
    ELSE s

Strip(s) == RStrip(LStrip(s))

\* index of the first occurrence of c in s at or after i; 0 when there is none
RECURSIVE Find(_, _, _)
Find(s, c, i) ==
    IF i > Len(s) THEN 0
    ELSE IF s[i] = c THEN i
    ELSE Find(s, c, i + 1)

\* index of the last occurrence of c in s at or before i; 0 when there is none
RECURSIVE RFind(_, _, _)
RFind(s, c, i) ==
    IF i < 1 THEN 0
    ELSE IF s[i] = c THEN i
    ELSE RFind(s, c, i - 1)

\* s.rsplit(c, 1)
RSplit1(s, c) ==
    LET i == RFind(s, c, Len(s))
    IN  IF i = 0 THEN <<s>>
        ELSE <<SubSeq(s, 1, i - 1), SubSeq(s, i + 1, Len(s))>>

\* s.split(c, 1): at most one split, at the first c
Split1(s, c) ==
    LET i == Find(s, c, 1)
    IN  IF i = 0 THEN <<s>>
        ELSE <<SubSeq(s, 1, i - 1), SubSeq(s, i + 1, Len(s))>>

\* s.startswith(p)
StartsWith(s, p) == Len(s) >= Len(p) /\ SubSeq(s, 1, Len(p)) = p

\* s.replace(a, b) for one-character a and b
Replace(s, a, b) == [i \in 1..Len(s) |-> IF s[i] = a THEN b ELSE s[i]]

ListMarker == <<"1", ".", " ">>

UnknownDevice == <<"U", "n", "k", "n", "o", "w", "n", " ", "D", "e", "v", "i", "c", "e">>

\* "1. " is prepended without first removing the one already there
NormaliseMarkerAlwaysPrepend(text_manual) ==
    ListMarker \o Replace(text_manual, "\n", "\n")

\* gemini_core.generate_manual, lines 81-86: the list-marker clean-up
NormaliseMarker(text_manual) ==
    LET stripped == IF StartsWith(text_manual, ListMarker)
                    THEN Strip(SubSeq(text_manual, 4, Len(text_manual)))
                    ELSE text_manual
    IN  ListMarker \o Replace(stripped, "\n", "\n")

\* the body is returned without the list-marker clean-up of lines 81-86
SplitResponseNoMarker(text) ==
    LET raw_text == Strip(text)
        lines == Split1(raw_text, "\n")
    IN  [device_name |-> IF Len(lines) > 0 THEN Strip(lines[1]) ELSE UnknownDevice,
         text_manual |-> IF Len(lines) > 1 THEN Strip(lines[2]) ELSE raw_text]

\* the split is made at the last line break instead of the first
SplitResponseAtLast(text) ==
    LET raw_text == Strip(text)
        lines == RSplit1(raw_text, "\n")
    IN  [device_name |-> IF Len(lines) > 0 THEN Strip(lines[1]) ELSE UnknownDevice,
         text_manual |-> NormaliseMarker(IF Len(lines) > 1 THEN Strip(lines[2]) ELSE raw_text)]

\* gemini_core.generate_manual, lines 71-89: from response.text to
\* (device_name, text_manual)
SplitResponse(text) ==
    LET raw_text == Strip(text)
        lines == Split1(raw_text, "\n")
        device_name == IF Len(lines) > 0 THEN Strip(lines[1]) ELSE UnknownDevice
        text_manual == IF Len(lines) > 1 THEN Strip(lines[2]) ELSE raw_text
    IN  [device_name |-> device_name, text_manual |-> NormaliseMarker(text_manual)]

(***************************************************************************)
(* The splitter on its own: every raw text up to MaxLen characters, and    *)
(* the documented example                                                  *)
(***************************************************************************)
RECURSIVE SeqsUpTo(_, _)
SeqsUpTo(S, n) ==
    IF n = 0 THEN {<<>>}
    ELSE LET shorter == SeqsUpTo(S, n - 1)
         IN  shorter \cup {Append(s, c) : s \in {t \in shorter : Len(t) = n - 1}, c \in S}

ExampleRaw ==
    <<"M", "i", "c", "r", "o", "w", "a", "v", "e", "\n",
      "1", ".", " ", "O", "p", "e", "n", " ", "d", "o", "o", "r", "\n",
      "2", ".", " ", "P", "r", "e", "s", "s", " ", "s", "t", "a", "r", "t">>

ExampleName == <<"M", "i", "c", "r", "o", "w", "a", "v", "e">>

ExampleBodyStart == <<"1", ".", " ", "O", "p", "e", "n", " ", "d", "o", "o", "r">>

ExampleNoBreak == <<"M", "i", "c", "r", "o", "w", "a", "v", "e">>

\* longer texts whose body carries the list marker twice, or the marker
\* followed by two spaces
MarkerSamples ==
    {<<"1", ".", " ", "1", ".", " ", "a">>,
     <<"a", "\n", "1", ".", " ", "1", ".", " ", "a">>,
     <<"a", "\n", "1", ".", " ", " ", "a">>}

RawTexts == SeqsUpTo(Alphabet, MaxLen) \cup {ExampleRaw, ExampleNoBreak} \cup MarkerSamples

NoResult == [device_name |-> <<>>, text_manual |-> <<>>, set |-> FALSE]

(***************************************************************************)
(* backend/main.py: start-up                                               *)
(***************************************************************************)
EnvNames == {"GEMINI_API_KEY", "SENDER_EMAIL", "SENDER_APP_PASSWORD",
             "CUSTOM_SEARCH_API_KEY", "SEARCH_ENGINE_ID"}

\* the environments a run starts from: complete, one value missing, empty
Environments == {EnvNames} \cup {EnvNames \ {v} : v \in EnvNames} \cup {{}}

\* os.getenv(name): truthy exactly when the name has a non-empty value
Getenv(e, name) == name \in e

\* the validation stops after the sender credentials
StartupValidationNoSearchKeys(e) ==
    IF ~Getenv(e, "GEMINI_API_KEY") THEN "aborted"
    ELSE IF ~Getenv(e, "SENDER_EMAIL") THEN "aborted"
    ELSE IF ~Getenv(e, "SENDER_APP_PASSWORD") THEN "aborted"
    ELSE "serving"

\* main.py lines 23-41: each missing value raises ValueError at import, so
\* the module never reaches app = FastAPI(...) nor uvicorn.run
StartupValidation(e) ==
    IF ~Getenv(e, "GEMINI_API_KEY") THEN "aborted"
    ELSE IF ~Getenv(e, "SENDER_EMAIL") THEN "aborted"
    ELSE IF ~Getenv(e, "SENDER_APP_PASSWORD") THEN "aborted"
    ELSE IF ~Getenv(e, "CUSTOM_SEARCH_API_KEY") THEN "aborted"
    ELSE IF ~Getenv(e, "SEARCH_ENGINE_ID") THEN "aborted"
    ELSE "serving"

(***************************************************************************)
(* backend/main.py: what a handler's body ends with                        *)
(*   exc = "none"   it returned value                                      *)
(*   exc = "http"   it raised HTTPException(status, detail)                *)
(*   exc = "other"  it raised any other Exception                          *)
(* calls lists the external services called on the way, in order.          *)
(***************************************************************************)
Null == "null"

Returned(v, calls) == [exc |-> "none", status |-> 200, value |-> v, calls |-> calls]

RaisedHTTP(status, detail, calls) ==
    [exc |-> "http", status |-> status, value |-> [detail |-> detail], calls |-> calls]

RaisedOther(calls) ==
    [exc |-> "other", status |-> 500, value |-> [detail |-> "Internal Server Error"],
     calls |-> calls]

\* "except Exception as e: raise HTTPException(status_code=500, ...)", the
\* clause that closes every handler of main.py.  HTTPException is itself an
\* Exception, so one raised inside the try block is caught here too.
ExceptAs500(o, detail) ==
    IF o.exc = "none" THEN o ELSE RaisedHTTP(500, detail, o.calls)

\* what the client receives: FastAPI answers a return with 200 and an
\* HTTPException with its status code
Respond(o) == [status |-> o.status, body |-> o.value, calls |-> o.calls]

(***************************************************************************)
(* backend/main.py: the external services, by their possible outcomes      *)
(***************************************************************************)
ModelTexts == {"<b>TV</b>", "<b>PS5</b>"}

\* generate_content: it raises, or response.text is None, or it is a string
InferenceOutcomes ==
    {[kind |-> "raise", text |-> ""], [kind |-> "none", text |-> ""]}
        \cup {[kind |-> "text", text |-> t] : t \in ModelTexts \cup {""}}

\* "response and response.text"
HasText(inf) == inf.kind = "text" /\ inf.text # ""

Links == {"http://img/1", "http://img/2"}

\* cse().list(...).execute(): it raises, or returns a result with or without
\* an "items" key
SearchOutcomes ==
    {[kind |-> "raise", has_items |-> FALSE, items |-> <<>>],
     [kind |-> "result", has_items |-> FALSE, items |-> <<>>],
     [kind |-> "result", has_items |-> TRUE, items |-> <<>>]}
        \cup {[kind |-> "result", has_items |-> TRUE, items |-> <<l>>] : l \in Links}
        \cup {[kind |-> "result", has_items |-> TRUE, items |-> <<"http://img/1", "http://img/2">>]}

\* SMTP_SSL(...), login, send_message
SmtpOutcomes == {"sent", "connect_error", "auth_error", "send_error"}

\* a failed search is tried once more before giving up
get_image_url_retry(search) ==
    IF search.kind = "raise" THEN Returned(Null, <<"search", "search">>)
    ELSE IF search.has_items /\ Len(search.items) > 0
         THEN Returned(search.items[1], <<"search">>)
         ELSE Returned(Null, <<"search">>)

\* the search error is let through to the caller
get_image_url_unguarded(search) ==
    IF search.kind = "raise" THEN RaisedOther(<<"search">>)
    ELSE IF search.has_items /\ Len(search.items) > 0
         THEN Returned(search.items[1], <<"search">>)
         ELSE Returned(Null, <<"search">>)

\* main.py lines 164-181
get_image_url(search) ==
    IF search.kind = "raise" THEN Returned(Null, <<"search">>)
    ELSE IF search.has_items /\ Len(search.items) > 0
         THEN Returned(search.items[1], <<"search">>)
         ELSE Returned(Null, <<"search">>)

\* the SMTP error is let through to the caller
send_email_unguarded(smtp) ==
    IF smtp = "sent" THEN Returned(TRUE, <<"smtp">>) ELSE RaisedOther(<<"smtp">>)

\* main.py lines 142-161
send_email(smtp) ==
    IF smtp = "sent" THEN Returned(TRUE, <<"smtp">>) ELSE Returned(FALSE, <<"smtp">>)

(***************************************************************************)
(* backend/main.py: the requests                                           *)
(***************************************************************************)
ImagePrefix == <<"i", "m", "a", "g", "e", "/">>

\* declared content types: image/png, image/, text/png, image (no slash),
\* Image/png (the test is case-sensitive)
ContentTypes ==
    {<<"i", "m", "a", "g", "e", "/", "p", "n", "g">>,
     <<"i", "m", "a", "g", "e", "/">>,
     <<"t", "e", "x", "t", "/", "p", "n", "g">>,
     <<"i", "m", "a", "g", "e">>,
     <<"I", "m", "a", "g", "e", "/", "p", "n", "g">>}

\* an upload: its declared content type, and whether PIL can decode its bytes
Files == [present : {TRUE}, content_type : ContentTypes, decodes : BOOLEAN]

NoFile == [present |-> FALSE, content_type |-> <<>>, decodes |-> FALSE]

Languages == {"English", "Hindi"}

\* ContactForm: pydantic rejects a body whose email is no address with 422
\* before the handler runs
Forms == [name : {"Ann"}, email_ok : BOOLEAN, message : {"hello"}]

\* GET /, lines 185-187
read_root == Respond(Returned([message |-> "Device DigiHelp AI Backend is running."], <<>>))

\* a handler that returns whatever response.text holds, with no test of it
generate_manual_unchecked_text(file, inf) ==
    LET body ==
            IF ~file.decodes THEN RaisedOther(<<>>)
            ELSE IF inf.kind = "raise" THEN RaisedOther(<<"inference">>)
            ELSE Returned([manual_text |-> inf.text, image_url |-> Null], <<"inference">>)
    IN  Respond(ExceptAs500(body, "An error occurred"))

\* POST /generate-manual/, lines 189-221.  The declared content type is not
\* read: the bytes go to Image.open, which raises when they are no image.
generate_manual(file, inf) ==
    LET body ==
            IF ~file.decodes THEN RaisedOther(<<>>)
            ELSE IF inf.kind = "raise" THEN RaisedOther(<<"inference">>)
            ELSE IF HasText(inf)
                 THEN Returned([manual_text |-> inf.text, image_url |-> Null],
                               <<"inference">>)
                 ELSE RaisedHTTP(500, "Failed to generate content or response was blocked.",
                                 <<"inference">>)
    IN  Respond(ExceptAs500(body, "An error occurred"))

\* POST /generate-manual-from-text/, lines 224-254
generate_manual_from_text(search, inf) ==
    LET image_url == get_image_url(search)
        calls == image_url.calls \o <<"inference">>
        body ==
            IF image_url.exc # "none" THEN RaisedOther(image_url.calls)
            ELSE IF inf.kind = "raise" THEN RaisedOther(calls)
            ELSE IF HasText(inf)
                 THEN Returned([manual_text |-> inf.text, image_url |-> image_url.value],
                               calls)
                 ELSE RaisedHTTP(500, "Failed to generate content or response was blocked.",
                                 calls)
    IN  Respond(ExceptAs500(body, "An error occurred"))

\* POST /ask-follow-up/, lines 258-304
ask_follow_up(file, inf) ==
    LET body ==
            IF file.present /\ ~StartsWith(file.content_type, ImagePrefix)
            THEN RaisedHTTP(400, "Invalid file type for chat. Please upload an image.", <<>>)
            ELSE IF file.present /\ ~file.decodes THEN RaisedOther(<<>>)
            ELSE IF inf.kind = "raise" THEN RaisedOther(<<"inference">>)
            ELSE IF HasText(inf) THEN Returned([answer |-> inf.text], <<"inference">>)
            ELSE RaisedHTTP(500, "AI failed to generate a chat response.", <<"inference">>)
    IN  Respond(ExceptAs500(body, "An error occurred"))

\* POST /contact-submit/, lines 308-330: the value send_email returns is
\* dropped
submit_contact_form(smtp) ==
    LET sent == send_email(smtp)
        body ==
            IF sent.exc # "none" THEN RaisedOther(sent.calls)
            ELSE Returned([status |-> "success", message |-> "Contact form received!"],
                          sent.calls)
    IN  Respond(ExceptAs500(body, "Error processing contact form."))

NoInference == [kind |-> "unused", text |-> ""]
NoSearch == [kind |-> "unused", has_items |-> FALSE, items |-> <<>>]
NoForm == [name |-> "", email_ok |-> FALSE, message |-> ""]
NoRequest ==
    [route |-> "none", language |-> "", file |-> NoFile, form |-> NoForm,
     inference |-> NoInference, search |-> NoSearch, smtp |-> "unused",
     response |-> [status |-> 0, body |-> [detail |-> ""], calls |-> <<>>]]

Serving == program = "main" /\ phase = "serving" /\ handled < MaxHandled

Others == <<client, uploads, req, raw_in, split_out>>

\* python main.py: the module body up to the validation
MainStartup ==
    /\ program = "main"
    /\ phase = "boot"
    /\ phase' = StartupValidation(env)
    /\ UNCHANGED <<program, env, handled, last, Others>>

Record(r) ==
    /\ last' = r
    /\ handled' = handled + 1
    /\ UNCHANGED <<program, env, phase, Others>>

HandleRoot ==
    /\ Serving
    /\ Record([NoRequest EXCEPT !.route = "/", !.response = read_root])

HandleGenerateManual ==
    /\ Serving
    /\ \E language \in Languages, file \in Files, inf \in InferenceOutcomes :
        Record([NoRequest EXCEPT !.route = "/generate-manual/",
                                 !.language = language, !.file = file,
                                 !.inference = inf,
                                 !.response = generate_manual(file, inf)])

HandleGenerateManualFromText ==
    /\ Serving
    /\ \E language \in Languages, search \in SearchOutcomes, inf \in InferenceOutcomes :
        Record([NoRequest EXCEPT !.route = "/generate-manual-from-text/",
                                 !.language = language, !.search = search,
                                 !.inference = inf,
                                 !.response = generate_manual_from_text(search, inf)])

HandleAskFollowUp ==
    /\ Serving
    /\ \E language \in Languages, file \in Files \cup {NoFile}, inf \in InferenceOutcomes :
        Record([NoRequest EXCEPT !.route = "/ask-follow-up/",
                                 !.language = language, !.file = file,
                                 !.inference = inf,
                                 !.response = ask_follow_up(file, inf)])

\* a body that fails ContactForm's validation is answered 422 by the
\* framework and never reaches the handler
HandleContactSubmit ==
    /\ Serving
    /\ \E form \in Forms, smtp \in SmtpOutcomes :
        Record([NoRequest EXCEPT !.route = "/contact-submit/", !.form = form,
                                 !.smtp = IF form.email_ok THEN smtp ELSE "unused",
                                 !.response =
                                     IF form.email_ok THEN submit_contact_form(smtp)
                                     ELSE [status |-> 422,
                                           body |-> [detail |-> "validation error"],
                                           calls |-> <<>>]])

NextMain ==
    \/ MainStartup
    \/ HandleRoot
    \/ HandleGenerateManual
    \/ HandleGenerateManualFromText
    \/ HandleAskFollowUp
    \/ HandleContactSubmit

(***************************************************************************)
(* backend/app.py with api_services/gemini_core.py: the Flask server        *)
(***************************************************************************)
Requests == {"r1", "r2"}

FileNames == {"a.jpg", "b.jpg"}

Absent == "absent"

\* what the model answers in the Flask server: the documented example and a
\* text with no line break
FlaskTexts == {ExampleRaw, <<"a">>}

\* client.models.generate_content: it raises, or response.text is None, or
\* it is a text
FlaskInference ==
    {[kind |-> "raise", text |-> <<>>], [kind |-> "none", text |-> <<>>]}
        \cup {[kind |-> "text", text |-> t] : t \in FlaskTexts}

TtsOutcomes == {"ok", "synthesis_error", "save_error"}

AudioName == "manual_audio.mp3"

\* api_services/tts_core.generate_audio: the file name of the audio written
\* under the manuals directory, or a failure signal when the synthesis or
\* the save fails
generate_audio(tts) == IF tts = "ok" THEN AudioName ELSE Null

\* f"/api/download/{audio_filename}"
DownloadUrl(audio_filename) == <<"/api/download/", audio_filename>>

\* gemini_core lines 16-20: Client() reads GEMINI_API_KEY; an error while
\* it is built is printed and leaves client = None
ClientInit(e, init_ok) == IF Getenv(e, "GEMINI_API_KEY") /\ init_ok THEN "ok" ELSE "none"

NoManual == [raised |-> TRUE, device_name |-> <<>>, text_manual |-> <<>>, calls |-> <<>>]

\* gemini_core.generate_manual, lines 37-94.  held is what image_path holds
\* when Image.open reads it: Absent, or the request whose bytes it holds;
\* decodable tells whether those bytes are an image.
gemini_generate_manual(cl, held, decodable, inf) ==
    IF cl # "ok" THEN NoManual
    ELSE IF held = Absent \/ ~decodable THEN NoManual
    ELSE IF inf.kind # "text" THEN [NoManual EXCEPT !.calls = <<"inference">>]
    ELSE LET out == SplitResponse(inf.text)
         IN  [raised |-> FALSE, device_name |-> out.device_name,
              text_manual |-> out.text_manual, calls |-> <<"inference">>]

FlaskDefaults ==
    [failed |-> FALSE, device_name |-> UnknownDevice,
     text_manual |-> <<"E", "r", "r", "o", "r">>, audio_file_url |-> Null,
     calls |-> <<>>]

\* a falsy audio file name is treated as an error of the request
process_try_block_strict_tts(manual, tts) ==
    IF manual.raised THEN [FlaskDefaults EXCEPT !.failed = TRUE, !.calls = manual.calls]
    ELSE IF Strip(manual.text_manual) = <<>>
         THEN [FlaskDefaults EXCEPT !.device_name = manual.device_name,
                                    !.text_manual = manual.text_manual,
                                    !.calls = manual.calls]
         ELSE LET audio_filename == generate_audio(tts)
              IN  [failed |-> audio_filename = Null,
                   device_name |-> manual.device_name,
                   text_manual |-> manual.text_manual,
                   audio_file_url |-> IF audio_filename # Null
                                      THEN DownloadUrl(audio_filename) ELSE Null,
                   calls |-> manual.calls \o <<"tts">>]

\* app.py lines 60-81: the defaults, then the try block and its except
process_try_block(manual, tts) ==
    IF manual.raised THEN [FlaskDefaults EXCEPT !.failed = TRUE, !.calls = manual.calls]
    ELSE IF Strip(manual.text_manual) = <<>>
         THEN [FlaskDefaults EXCEPT !.device_name = manual.device_name,
                                    !.text_manual = manual.text_manual,
                                    !.calls = manual.calls]
         ELSE LET audio_filename == generate_audio(tts)
              IN  [failed |-> FALSE,
                   device_name |-> manual.device_name,
                   text_manual |-> manual.text_manual,
                   audio_file_url |-> IF audio_filename # Null
                                      THEN DownloadUrl(audio_filename) ELSE Null,
                   calls |-> manual.calls \o <<"tts">>]

\* the except clause answers at once and the clean-up is skipped
AfterTryNoFinally(failed) == IF failed THEN "done" ELSE "cleanup"

\* app.py lines 78-88: the finally block runs after the try block and after
\* the return of the except clause alike
AfterTry(failed) == "cleanup"

NoResponse ==
    [status |-> 0, success |-> FALSE, device_identified |-> <<>>,
     text_manual |-> <<>>, audio_file_url |-> Null, error |-> ""]

ErrorResponse(status, error) == [NoResponse EXCEPT !.status = status, !.error = error]

\* app.py lines 81 and 91-96
FinalResponse(t) ==
    IF t.failed THEN ErrorResponse(500, "Processing failed due to a server error")
    ELSE [status |-> 200, success |-> TRUE, device_identified |-> t.device_name,
          text_manual |-> t.text_manual, audio_file_url |-> t.audio_file_url,
          error |-> ""]

Idle ==
    [pc |-> "idle", filename |-> "", decodes |-> FALSE, saved |-> FALSE,
     held |-> Absent, inferred |-> FALSE, raw |-> <<>>, tts |-> "unused",
     try |-> FlaskDefaults,
     exists |-> FALSE, removed |-> {}, response |-> NoResponse]

InFlight(r) == req[r].pc \notin {"idle", "done"}

FlaskServing == program = "flask" /\ phase = "serving"

\* python app.py: importing gemini_core builds the client; nothing is
\* validated, and app.run starts serving
FlaskStartup ==
    /\ program = "flask"
    /\ phase = "boot"
    /\ \E init_ok \in BOOLEAN : client' = ClientInit(env, init_ok)
    /\ phase' = "serving"
    /\ UNCHANGED <<program, env, handled, last, uploads, req, raw_in, split_out>>

\* app.py lines 45-58: the validation and image_file.save(image_path)
Receive(r) ==
    /\ FlaskServing
    /\ req[r].pc = "idle"
    /\ handled' = handled + 1
    /\ \E has_image \in BOOLEAN, filename \in FileNames \cup {""},
          decodes \in BOOLEAN, save_ok \in BOOLEAN :
        IF ~has_image
        THEN /\ req' = [req EXCEPT ![r].pc = "done",
                                   ![r].response = ErrorResponse(400, "No image file provided.")]
             /\ UNCHANGED uploads
        ELSE IF filename = ""
        THEN /\ req' = [req EXCEPT ![r].pc = "done",
                                   ![r].response = ErrorResponse(400, "No selected file.")]
             /\ UNCHANGED uploads
        ELSE IF ~save_ok
        THEN /\ req' = [req EXCEPT ![r].pc = "done", ![r].filename = filename,
                                   ![r].response = ErrorResponse(500, "Failed to save file")]
             /\ UNCHANGED uploads
        ELSE /\ req' = [req EXCEPT ![r].pc = "saved", ![r].filename = filename,
                                   ![r].decodes = decodes, ![r].saved = TRUE]
             /\ uploads' = [uploads EXCEPT ![filename] = r]
    /\ UNCHANGED <<program, env, phase, last, client, raw_in, split_out>>

\* app.py lines 60-81: generate_manual(image_path), then generate_audio
Generate(r) ==
    /\ FlaskServing
    /\ req[r].pc = "saved"
    /\ \E inf \in FlaskInference, tts \in TtsOutcomes :
        LET held == uploads[req[r].filename]
            decodable == held # Absent /\ req[held].decodes
            manual == gemini_generate_manual(client, held, decodable, inf)
            t == process_try_block(manual, tts)
        IN  req' = [req EXCEPT ![r].pc = AfterTry(t.failed),
                               ![r].held = held,
                               ![r].inferred = ~manual.raised,
                               ![r].raw = IF manual.raised THEN <<>> ELSE inf.text,
                               ![r].tts = IF "tts" \in {t.calls[i] : i \in DOMAIN t.calls}
                                          THEN tts ELSE "unused",
                               ![r].try = t,
                               ![r].response = IF AfterTry(t.failed) = "done"
                                               THEN FinalResponse(t) ELSE NoResponse]
    /\ UNCHANGED <<program, env, phase, handled, last, client, uploads, raw_in, split_out>>

\* app.py line 86: os.path.exists(image_path); without the file the handler
\* goes on to its response
CleanupCheck(r) ==
    /\ FlaskServing
    /\ req[r].pc = "cleanup"
    /\ LET exists == uploads[req[r].filename] # Absent
       IN  req' = [req EXCEPT ![r].exists = exists,
                              ![r].pc = IF exists THEN "remove" ELSE "done",
                              ![r].response = IF exists THEN NoResponse
                                              ELSE FinalResponse(req[r].try)]
    /\ UNCHANGED <<program, env, phase, handled, last, client, uploads, raw_in, split_out>>

\* the clean-up empties the uploads directory instead of removing image_path
CleanupRemoveWholeDirectory(r) ==
    /\ FlaskServing
    /\ req[r].pc = "remove"
    /\ uploads' = [f \in FileNames |-> Absent]
    /\ req' = [req EXCEPT ![r].pc = "done",
                          ![r].removed = {uploads[f] : f \in FileNames} \ {Absent},
                          ![r].response = FinalResponse(req[r].try)]
    /\ UNCHANGED <<program, env, phase, handled, last, client, raw_in, split_out>>

\* app.py lines 87-96: os.remove(image_path), then the response.  os.remove
\* raises FileNotFoundError when the path is gone, and the error leaves the
\* handler through the finally block: Flask answers 500.
CleanupRemove(r) ==
    /\ FlaskServing
    /\ req[r].pc = "remove"
    /\ IF uploads[req[r].filename] = Absent
       THEN /\ req' = [req EXCEPT ![r].pc = "done",
                                  ![r].response = ErrorResponse(500, "Internal Server Error")]
            /\ UNCHANGED uploads
       ELSE /\ uploads' = [uploads EXCEPT ![req[r].filename] = Absent]
            /\ req' = [req EXCEPT ![r].pc = "done",
                                  ![r].removed = {uploads[req[r].filename]},
                                  ![r].response = FinalResponse(req[r].try)]
    /\ UNCHANGED <<program, env, phase, handled, last, client, raw_in, split_out>>

\* one request at a time: a request is received when no other is in flight
ReceiveNext(r) == (\A q \in Requests : ~InFlight(q)) /\ Receive(r)

NextFlask ==
    \/ FlaskStartup
    \/ \E r \in Requests : ReceiveNext(r)
    \/ \E r \in Requests : Generate(r)
    \/ \E r \in Requests : CleanupCheck(r)
    \/ \E r \in Requests : CleanupRemove(r)

(***************************************************************************)
(* The splitter on its own                                                 *)
(***************************************************************************)
\* gemini_core lines 71-89 applied to one response.text
SplitOne ==
    /\ program = "split"
    /\ ~split_out.set
    /\ LET out == SplitResponse(raw_in)
       IN  split_out' = [device_name |-> out.device_name,
                         text_manual |-> out.text_manual, set |-> TRUE]
    /\ UNCHANGED <<program, env, phase, handled, last, client, uploads, req, raw_in>>

NextSplit == SplitOne

(***************************************************************************)
(* Specifications                                                          *)
(***************************************************************************)
InitCommon ==
    /\ phase = "boot"
    /\ handled = 0
    /\ last = NoRequest
    /\ client = "unset"
    /\ uploads = [f \in FileNames |-> Absent]
    /\ req = [r \in Requests |-> Idle]
    /\ split_out = NoResult

InitMain == program = "main" /\ env \in Environments /\ raw_in = <<>> /\ InitCommon

InitFlask == program = "flask" /\ env \in Environments /\ raw_in = <<>> /\ InitCommon

InitSplit == program = "split" /\ env = EnvNames /\ raw_in \in RawTexts /\ InitCommon

Init == InitMain \/ InitFlask

Next == NextMain \/ NextFlask

SpecMain == InitMain /\ [][NextMain]_vars

SpecFlask == InitFlask /\ [][NextFlask]_vars

\* the threaded server: requests are received while others are in flight,
\* and their steps interleave
NextFlaskRace ==
    \/ FlaskStartup
    \/ \E r \in Requests : Receive(r)
    \/ \E r \in Requests : Generate(r)
    \/ \E r \in Requests : CleanupCheck(r)
    \/ \E r \in Requests : CleanupRemove(r)

SpecFlaskRace == InitFlask /\ [][NextFlaskRace]_vars

SpecSplit == InitSplit /\ [][NextSplit]_vars

Spec == Init /\ [][Next]_vars

(***************************************************************************)
(* Properties                                                              *)
(***************************************************************************)
CallsOf(response) == {response.calls[i] : i \in DOMAIN response.calls}

IsImageType(content_type) ==
    /\ Len(content_type) >= Len(ImagePrefix)
    /\ \A i \in 1..Len(ImagePrefix) : content_type[i] = ImagePrefix[i]

\* C1: every POST to /generate-manual/ whose file declares a content type
\* that does not start with "image/" is answered 400 and makes no inference
\* call, whatever the bytes are.
C1_NonImageUploadRejected ==
    (program = "main" /\ last.route = "/generate-manual/"
        /\ ~IsImageType(last.file.content_type))
    => (last.response.status = 400 /\ "inference" \notin CallsOf(last.response))

\* C2: every POST to /ask-follow-up/ that carries a file whose declared
\* content type does not start with "image/" is answered 400 and makes no
\* inference call.
C2_NonImageChatFileRejected ==
    (program = "main" /\ last.route = "/ask-follow-up/" /\ last.file.present
        /\ ~IsImageType(last.file.content_type))
    => (last.response.status = 400 /\ "inference" \notin CallsOf(last.response))

\* C3: for every valid contact form /contact-submit/ answers
\* {status: "success"} whether the SMTP send succeeds or fails in any way;
\* send_email turns every failure into the value false.
C3_ContactAlwaysSuccess ==
    (program = "main" /\ last.route = "/contact-submit/" /\ last.form.email_ok)
    => /\ last.response.status = 200
       /\ last.response.body.status = "success"
       /\ last.response.calls = <<"smtp">>
       /\ send_email(last.smtp).exc = "none"
       /\ send_email(last.smtp).value = (last.smtp = "sent")

C3_Witness ==
    /\ program = "main" /\ last.route = "/contact-submit/" /\ last.form.email_ok
    /\ last.smtp = "auth_error"
    /\ last.response.status = 200
    /\ last.response.body.status = "success"

(***************************************************************************)
(* The response splitter, stated without the code's own helpers            *)
(***************************************************************************)
NonSpaces(s) == {i \in 1..Len(s) : ~(s[i] \in {" ", "\n", "\t", "\r"})}

\* s without its leading and trailing whitespace
Trimmed(s) ==
    IF NonSpaces(s) = {} THEN <<>>
    ELSE LET lo == CHOOSE i \in NonSpaces(s) : \A j \in NonSpaces(s) : i <= j
             hi == CHOOSE i \in NonSpaces(s) : \A j \in NonSpaces(s) : i >= j
         IN  [k \in 1..(hi - lo + 1) |-> s[lo + k - 1]]

Breaks(s) == {i \in 1..Len(s) : s[i] = "\n"}

FirstBreak(s) == CHOOSE i \in Breaks(s) : \A j \in Breaks(s) : i <= j

Before(s, i) == [k \in 1..(i - 1) |-> s[k]]

After(s, i) == [k \in 1..(Len(s) - i) |-> s[i + k]]

BeginsWith(s, p) == Len(s) >= Len(p) /\ \A k \in 1..Len(p) : s[k] = p[k]

\* "1. " followed by b, b first freed of one leading "1. " and trimmed again
Marked(b) ==
    <<"1", ".", " ">> \o (IF BeginsWith(b, <<"1", ".", " ">>) THEN Trimmed(After(b, 3)) ELSE b)

\* C4: when the trimmed raw text holds a line break, the device name is the
\* trimmed text before the first line break and the body is made from the
\* text after that line break alone; the documented example gives
\* "Microwave" and a body beginning "1. Open door".
C4_SplitAtFirstBreak ==
    (program = "split" /\ split_out.set /\ Breaks(Trimmed(raw_in)) # {})
    => LET t == Trimmed(raw_in)
           i == FirstBreak(t)
       IN  /\ split_out.device_name = Trimmed(Before(t, i))
           /\ split_out.text_manual = Marked(Trimmed(After(t, i)))
           /\ raw_in = ExampleRaw
                => /\ split_out.device_name = ExampleName
                   /\ BeginsWith(split_out.text_manual, ExampleBodyStart)

C4_Witness ==
    /\ program = "split" /\ split_out.set
    /\ raw_in = ExampleRaw
    /\ split_out.device_name = ExampleName
    /\ BeginsWith(split_out.text_manual, ExampleBodyStart)

\* C5 as stated: for a raw text with no line break the device name and the
\* body are both the entire trimmed text, so they are equal.
C5_NameEqualsBody ==
    (program = "split" /\ split_out.set /\ Breaks(raw_in) = {})
    => /\ split_out.device_name = Trimmed(raw_in)
       /\ split_out.text_manual = Trimmed(raw_in)

\* C5 as amended: for a raw text with no line break the device name is the
\* entire trimmed text and the body is "1. " followed by that text, freed of
\* one leading "1. " and trimmed again; the two are equal exactly when the
\* trimmed text begins with "1. " followed by a non-whitespace character.
C5_BodyIsMarkedName ==
    (program = "split" /\ split_out.set /\ Breaks(raw_in) = {})
    => LET t == Trimmed(raw_in)
       IN  /\ split_out.device_name = t
           /\ split_out.text_manual = Marked(t)
           /\ (split_out.device_name = split_out.text_manual)
                <=> (BeginsWith(t, <<"1", ".", " ">>) /\ 4 \in NonSpaces(t))

C5_Witness ==
    /\ program = "split" /\ split_out.set
    /\ raw_in = ExampleNoBreak
    /\ split_out.device_name = ExampleNoBreak
    /\ split_out.text_manual = <<"1", ".", " ">> \o ExampleNoBreak

(***************************************************************************)
(* Properties of the servers                                               *)
(***************************************************************************)
\* C6: for every upload to /generate-manual/ whose bytes decode as an image
\* the response is 200 with a non-empty manual_text equal to the model's
\* text, or 500; it is 500 exactly when the inference call throws or
\* returns no text.
C6_ManualOrFailure ==
    (program = "main" /\ last.route = "/generate-manual/" /\ last.file.decodes)
    => LET no_text == \/ last.inference.kind = "raise"
                      \/ last.inference.kind = "none"
                      \/ last.inference.text = ""
       IN  /\ last.response.status \in {200, 500}
           /\ last.response.status = 500 <=> no_text
           /\ last.response.status = 200
                => /\ last.response.body.manual_text = last.inference.text
                   /\ last.response.body.manual_text # ""
                   /\ last.response.body.image_url = Null

C6_Witness ==
    /\ program = "main" /\ last.route = "/generate-manual/" /\ last.file.decodes
    /\ last.inference = [kind |-> "text", text |-> ""]
    /\ last.response.status = 500

\* C7: on /generate-manual-from-text/, whenever inference returns non-empty
\* text the response is 200 with that text, and image_url is the first link
\* of the image search, or null when the search returns no items or fails.
C7_ImageUrlOrNull ==
    (program = "main" /\ last.route = "/generate-manual-from-text/"
        /\ last.inference.kind = "text" /\ last.inference.text # "")
    => /\ last.response.status = 200
       /\ last.response.body.manual_text = last.inference.text
       /\ last.response.body.image_url =
            IF last.search.kind = "result" /\ last.search.has_items
                /\ last.search.items # <<>>
            THEN Head(last.search.items) ELSE Null

C7_Witness ==
    /\ program = "main" /\ last.route = "/generate-manual-from-text/"
    /\ last.search.kind = "raise"
    /\ last.response.status = 200
    /\ last.response.body.manual_text = last.inference.text
    /\ last.response.body.image_url = Null

\* C8 as stated: if any required environment value is missing at startup,
\* or the inference client of the /api/process_device_image server failed
\* to initialise, the process never serves and handles no request, in
\* either server.
C8_NoServerServesWithoutConfig ==
    (env # EnvNames \/ client = "none") => (phase # "serving" /\ handled = 0)

\* C8 as amended: with any of the five values missing main.py aborts before
\* serving and handles no request; app.py does not abort, and with its
\* inference client not initialised it answers every request whose upload
\* was saved with 500, without an inference call.
C8_MainAbortsFlaskDefers ==
    /\ (program = "main" /\ env # EnvNames)
        => (phase \in {"boot", "aborted"} /\ handled = 0 /\ last = NoRequest)
    /\ (program = "main" /\ phase = "aborted") => env # EnvNames
    /\ (program = "flask" /\ ~Getenv(env, "GEMINI_API_KEY")) => client \in {"unset", "none"}
    /\ (program = "flask" /\ client = "none")
        => \A r \in Requests :
            (req[r].pc = "done" /\ req[r].saved)
            => /\ req[r].response.status = 500
               /\ ~req[r].inferred
               /\ req[r].try.calls = <<>>

C8_Witness ==
    /\ program = "main" /\ phase = "aborted" /\ handled = 0
    /\ env = EnvNames \ {"SEARCH_ENGINE_ID"}

C10_UploadRemoved ==
    program = "flask"
    => /\ \A r \in Requests :
            (req[r].response.status # 0 /\ req[r].saved)
            => uploads[req[r].filename] # r
       /\ (\A q \in Requests : ~InFlight(q)) => \A f \in FileNames : uploads[f] = Absent

C10_Witness ==
    /\ program = "flask"
    /\ \E r \in Requests :
        /\ req[r].pc = "done" /\ req[r].saved /\ ~req[r].inferred
        /\ req[r].response.status = 500
        /\ \A f \in FileNames : uploads[f] = Absent

(***************************************************************************)
(* Overlapping requests on the uploads directory                           *)
(***************************************************************************)
\* the request has handed image_path to inference
Generated(r) == req[r].saved /\ req[r].pc \in {"cleanup", "remove", "done"}

SharesPath(r, q) ==
    /\ q # r
    /\ req[q].saved
    /\ req[q].filename = req[r].filename

\* C11: overlapping requests with one uploaded file name share one path: a
\* request hands to inference a file that holds the other request's bytes,
\* or that the other request's clean-up has already deleted, only when the
\* other request uses the same file name; requests with different file
\* names never read or delete each other's file.  (That such an
\* interleaving exists is the reachability of C11_Witness.)
C11_OnlySameNameCollides ==
    program = "flask"
    => \A r \in Requests :
        /\ (Generated(r) /\ req[r].held # r)
            => \E q \in Requests : SharesPath(r, q)
        /\ \A q \in Requests \ {r} :
            (req[r].saved /\ req[q].saved /\ req[r].filename # req[q].filename)
            => /\ Generated(r) => req[r].held = r
               /\ q \notin req[r].removed
               /\ uploads[req[r].filename] \in {r, Absent}

\* r1 handed r2's bytes to inference and its clean-up deleted them; r2 then
\* handed a deleted file to inference
C11_Witness ==
    /\ program = "flask"
    /\ req["r1"].filename = req["r2"].filename
    /\ Generated("r1") /\ req["r1"].held = "r2"
    /\ req["r1"].removed = {"r2"}
    /\ Generated("r2") /\ req["r2"].held = Absent

(***************************************************************************)
(* Calls to the external services                                          *)
(***************************************************************************)
Services == {"inference", "search", "tts", "smtp"}

Count(calls, service) == Cardinality({i \in DOMAIN calls : calls[i] = service})

\* C12: nothing is retried: every request of every handler makes at most
\* one call to the inference service, at most one image-search call, at
\* most one TTS call and at most one SMTP send, so a failed call is never
\* followed by a second call to the same service within that request.
C12_NoRetry ==
    /\ program = "main"
        => \A service \in Services : Count(last.response.calls, service) <= 1
    /\ program = "flask"
        => \A r \in Requests, service \in Services :
            Count(req[r].try.calls, service) <= 1

C12_Witness ==
    /\ program = "main" /\ last.route = "/generate-manual-from-text/"
    /\ last.search.kind = "raise" /\ last.inference.kind = "raise"
    /\ last.response.calls = <<"search", "inference">>
    /\ last.response.status = 500

(***************************************************************************)
(* The list-marker step of the splitter                                    *)
(***************************************************************************)
\* the body as the list-marker step receives it: the trimmed text after the
\* first line break, or the whole trimmed text when there is none
BodyBeforeMarker(raw) ==
    LET t == Trimmed(raw)
    IN  IF Breaks(t) = {} THEN t ELSE Trimmed(After(t, FirstBreak(t)))

\* C13: the list-marker step of gemini_core.generate_manual strips one
\* leading "1. " from the body and prepends "1. " again: every body it
\* returns begins with "1. ", it leaves unchanged a body that already begins
\* with "1. " followed by a non-whitespace character, and applied to its
\* own result it returns that result.
C13_MarkerStep ==
    (program = "split" /\ split_out.set)
    => LET b == BodyBeforeMarker(raw_in)
       IN  /\ BeginsWith(split_out.text_manual, <<"1", ".", " ">>)
           /\ (BeginsWith(b, <<"1", ".", " ">>) /\ 4 \in NonSpaces(b))
                => split_out.text_manual = b
           /\ NormaliseMarker(split_out.text_manual) = split_out.text_manual

C13_Witness ==
    /\ program = "split" /\ split_out.set
    /\ raw_in = <<"a", "\n", "1", ".", " ", "1", ".", " ", "a">>
    /\ split_out.text_manual = <<"1", ".", " ", "1", ".", " ", "a">>
    /\ NormaliseMarker(split_out.text_manual) = split_out.text_manual

====
